---- MODULE Spec2Model ----
(***************************************************************************)
(* Model of the BlazePalm palm-region decoder                              *)
(* (src/hand_detectors/blazepalm/blazepalm.py).                            *)
(*                                                                         *)
(* Floating-point values are modelled as exact rationals [n, d] in lowest  *)
(* terms; the value 0/0 stands for the IEEE NaN that numpy produces when   *)
(* it divides zero by zero.  Arrays are sequences, indexed from 1 (the     *)
(* source indexes from 0: keypoint index 0 is element 1, index 2 is        *)
(* element 3).                                                             *)
(***************************************************************************)
EXTENDS Integers, Sequences, FiniteSets, TLC

(***************************************************************************)
(* Bounds of the model.                                                    *)
(***************************************************************************)
\* number of rows of the anchor table (and of the engine's outputs)
NumAnchors == 2
\* frames of 1..MaxSide rows and 1..MaxSide columns
MaxSide == 6
\* source triangles for the affine round trip have coordinates in 0..MaxCoord
MaxCoord == 2

(***************************************************************************)
(* Exact arithmetic standing for numpy's float arithmetic.                 *)
(***************************************************************************)
RECURSIVE GCD(_, _)
GCD(a, b) == IF b = 0 THEN a ELSE GCD(b, a % b)

Abs(x) == IF x < 0 THEN -x ELSE x

Sgn(x) == IF x < 0 THEN -1 ELSE IF x > 0 THEN 1 ELSE 0

\* F applied to the value of v, and to the values of v and w: the argument is
\* computed once, as a Python call computes it
Let(v, F(_)) == CHOOSE r \in {F(x) : x \in {v}} : TRUE

Let2(v, w, F(_, _)) == CHOOSE r \in {F(x, y) : x \in {v}, y \in {w}} : TRUE

\* the value num/den; a zero denominator gives nan (0/0) or a signed inf (+-1/0)
QV(num, den) ==
    IF den = 0 THEN [n |-> Sgn(num), d |-> 0]
    ELSE LET g == GCD(Abs(num), Abs(den))
         IN  [n |-> Sgn(den) * (num \div g), d |-> Abs(den) \div g]

Q(num, den) == Let2(num, den, QV)

I(k) == [n |-> k, d |-> 1]

NaN == [n |-> 0, d |-> 0]

IsFinite(a) == a.d # 0

IsNaN(a) == a.d = 0 /\ a.n = 0

\* x + y, x - y, x * y, x / y of floats; an operand that is not finite gives nan
\* (no inf is ever produced by the decoder on the inputs of the model)
AddV(a, b) ==
    IF a.d = 0 \/ b.d = 0 THEN NaN
    ELSE Let(GCD(a.d, b.d),
             LAMBDA g : QV(a.n * (b.d \div g) + b.n * (a.d \div g), (a.d \div g) * b.d))

RAdd(a, b) == Let2(a, b, AddV)

NegV(a) == [n |-> -a.n, d |-> a.d]

RNeg(a) == Let(a, NegV)

SubV(a, b) == AddV(a, NegV(b))

RSub(a, b) == Let2(a, b, SubV)

MulV(a, b) ==
    IF a.d = 0 \/ b.d = 0 THEN NaN
    ELSE Let2(GCD(Abs(a.n), b.d), GCD(Abs(b.n), a.d),
              LAMBDA g1, g2 :
                  QV((a.n \div (IF g1 = 0 THEN 1 ELSE g1)) * (b.n \div (IF g2 = 0 THEN 1 ELSE g2)),
                     (a.d \div (IF g2 = 0 THEN 1 ELSE g2)) * (b.d \div (IF g1 = 0 THEN 1 ELSE g1))))

RMul(a, b) == Let2(a, b, MulV)

DivV(a, b) ==
    IF a.d = 0 \/ b.d = 0 THEN NaN
    ELSE IF b.n = 0 THEN [n |-> Sgn(a.n), d |-> 0]
    ELSE MulV(a, [n |-> Sgn(b.n) * b.d, d |-> Abs(b.n)])

RDiv(a, b) == Let2(a, b, DivV)

\* a > b, a <= b of floats: every comparison with nan is False
GtV(a, b) == a.d # 0 /\ b.d # 0 /\ a.n * b.d > b.n * a.d

RGt(a, b) == Let2(a, b, GtV)

LeV(a, b) == a.d # 0 /\ b.d # 0 /\ a.n * b.d <= b.n * a.d

RLe(a, b) == Let2(a, b, LeV)

MaxV(a, b) == IF GtV(b, a) THEN b ELSE a

RMax(a, b) == Let2(a, b, MaxV)

MinV(a, b) == IF GtV(a, b) THEN b ELSE a

RMin(a, b) == Let2(a, b, MinV)

\* the square root of a float whose root is rational
RECURSIVE ISqrtFrom(_, _)
ISqrtFrom(k, r) == IF (r + 1) * (r + 1) > k THEN r ELSE ISqrtFrom(k, r + 1)

SqrtV(a) == IF a.d = 0 THEN NaN ELSE QV(ISqrtFrom(a.n, 0), ISqrtFrom(a.d, 0))

RSqrt(a) == Let(a, SqrtV)

IsSquare(k) == ISqrtFrom(k, 0) * ISqrtFrom(k, 0) = k

\* the array holding the values f[1], ..., f[n], each computed once
Array(f) == f \o <<>>

\* 2-vectors of floats
Vec(x, y) == <<I(x), I(y)>>

VAdd(u, v) == Let2(u, v, LAMBDA a, b : <<AddV(a[1], b[1]), AddV(a[2], b[2])>>)

VSub(u, v) == Let2(u, v, LAMBDA a, b : <<SubV(a[1], b[1]), SubV(a[2], b[2])>>)

VScale(u, c) == Let2(u, c, LAMBDA a, b : <<MulV(a[1], b), MulV(a[2], b)>>)

VDivide(u, c) == Let2(u, c, LAMBDA a, b : <<DivV(a[1], b), DivV(a[2], b)>>)

VFinite(u) == Let(u, LAMBDA a : a[1].d # 0 /\ a[2].d # 0)

\* the maximum of a non-empty sequence of integers
RECURSIVE SeqMaxV(_, _)
SeqMaxV(s, k) ==
    IF k = 1 THEN s[1]
    ELSE Let(SeqMaxV(s, k - 1), LAMBDA m : IF s[k] > m THEN s[k] ELSE m)

SeqMax(s) == Let(s, LAMBDA x : SeqMaxV(x, Len(x)))

(***************************************************************************)
(* Program constants and the decoder object.                               *)
(***************************************************************************)
CONFINDENCE_THRESHOLD == Q(1, 2)

\* the rational standing for Euler's number in np.exp
Euler == Q(19, 7)

\* the input the engine accepts
TENSOR_SHAPE == <<256, 256, 3>>

\* row i of anchors.csv, the normalised centre of anchor i (a grid of step 1/128)
AnchorRow(i) == <<Q(i, 128), Q(i, 128)>>

\* BlazePalm.__init__: the fields of the decoder after construction
BlazePalmInit ==
    [ box_shift       |-> Q(1, 5),
      box_enlarge     |-> Q(3, 2),
      anchors         |-> Array([i \in 1..NumAnchors |-> AnchorRow(i)]),
      R90             |-> << <<I(0), I(1)>>, <<I(-1), I(0)>> >>,
      target_triangle |-> << Vec(128, 128), Vec(128, 0), Vec(0, 128) >>,
      target_box      |-> << <<I(0), I(0), I(1)>>, <<I(256), I(0), I(1)>>,
                             <<I(256), I(256), I(1)>>, <<I(0), I(256), I(1)>> >> ]

\* the engine handle: the tensor last set and whether it has been invoked on it
EngineInit == [tensor |-> <<>>, invoked |-> FALSE]

(***************************************************************************)
(* Static helpers of BlazePalm.                                            *)
(***************************************************************************)
\* np.exp(x) for an integral x
RECURSIVE RPow(_, _)
RPow(b, k) == IF k = 0 THEN I(1) ELSE RMul(b, RPow(b, k - 1))

exp(x) ==
    Let(x, LAMBDA v :
        IF v.d = 0 THEN NaN
        ELSE IF v.n >= 0 THEN RPow(Euler, v.n) ELSE RDiv(I(1), RPow(Euler, -v.n)))

\* the logistic function with the sign of its argument lost
sigm_sign_lost(x) == RDiv(I(1), RAdd(I(1), exp(x)))

sigm(x) == RDiv(I(1), RAdd(I(1), exp(RNeg(x))))

\* 2 * ((img / 255) - 0.5), elementwise
im_normalize(v) == RMul(I(2), RSub(RDiv(v, I(255)), Q(1, 2)))

\* np.pad(x, ((0,0),(0,1)), constant_values=1): a column of ones is appended
pad1(x) == Let(x, LAMBDA a : Array([i \in 1..Len(a) |-> Append(a[i], I(1))]))

Transpose(m) ==
    Let(m, LAMBDA a : Array([j \in 1..Len(a[1]) |-> Array([i \in 1..Len(a) |-> a[i][j]])]))

\* v @ m for a 2-vector v and a 2x2 matrix m
VecMat2(v, m) ==
    Let2(v, m, LAMBDA a, b :
        << RAdd(RMul(a[1], b[1][1]), RMul(a[2], b[2][1])),
           RAdd(RMul(a[1], b[1][2]), RMul(a[2], b[2][2])) >>)

\* np.linalg.norm of a 2-vector
norm(v) == Let(v, LAMBDA a : RSqrt(RAdd(RMul(a[1], a[1]), RMul(a[2], a[2]))))

\* the triangle anchored at the wrist keypoint instead of the middle-finger base
get_triangle_wrist(s, kp0, kp2, dist) ==
    Let(VSub(kp2, kp0), LAMBDA dir_v0 :
        Let(VDivide(dir_v0, norm(dir_v0)), LAMBDA dir_v :
            << kp0,
               VAdd(kp0, VScale(dir_v, dist)),
               VAdd(kp0, VScale(VecMat2(dir_v, Transpose(s.R90)), dist)) >>))

get_triangle(s, kp0, kp2, dist) ==
    Let(VSub(kp2, kp0), LAMBDA dir_v0 :
        Let(VDivide(dir_v0, norm(dir_v0)), LAMBDA dir_v :
            << kp2,
               VAdd(kp2, VScale(dir_v, dist)),
               VAdd(kp2, VScale(VecMat2(dir_v, Transpose(s.R90)), dist)) >>))

triangle_to_bbox(source) ==
    Let(source, LAMBDA t :
        << VAdd(VSub(t[3], t[1]), t[2]),
           VSub(VAdd(t[2], t[1]), t[3]),
           VSub(VSub(VScale(t[1], I(3)), t[2]), t[3]),
           VAdd(VSub(t[3], t[2]), t[1]) >>)

(***************************************************************************)
(* dependencies/non_maximum_suppression.py: greedy suppression over boxes  *)
(* <<cx, cy, w, h>> ranked by probability.  The highest-probability        *)
(* remaining box is picked, every other box whose overlap ratio            *)
(* (intersection area / own area) with it exceeds the threshold is         *)
(* dropped, until none remain.  Equal probabilities are ranked by index.   *)
(***************************************************************************)
OVERLAP_THRESHOLD == Q(3, 10)

Half(x) == RDiv(x, I(2))

\* intersection area of boxes a and b, divided by the area of b
OverlapRatio(box_a, box_b) ==
    Let2(box_a, box_b, LAMBDA a, b :
        LET xx1 == RMax(RSub(a[1], Half(a[3])), RSub(b[1], Half(b[3])))
            yy1 == RMax(RSub(a[2], Half(a[4])), RSub(b[2], Half(b[4])))
            xx2 == RMin(RAdd(a[1], Half(a[3])), RAdd(b[1], Half(b[3])))
            yy2 == RMin(RAdd(a[2], Half(a[4])), RAdd(b[2], Half(b[4])))
            w   == RMax(I(0), RSub(xx2, xx1))
            h   == RMax(I(0), RSub(yy2, yy1))
        IN  RDiv(RMul(w, h), RMul(b[3], b[4])))

\* i ranks before j: higher probability, then lower index
RanksBefore(probabilities, i, j) ==
    \/ RGt(probabilities[i], probabilities[j])
    \/ (~RGt(probabilities[j], probabilities[i]) /\ i < j)

RECURSIVE InsertRanked(_, _, _)
InsertRanked(probabilities, i, sorted) ==
    IF sorted = <<>> THEN <<i>>
    ELSE IF RanksBefore(probabilities, i, Head(sorted)) THEN <<i>> \o sorted
    ELSE <<Head(sorted)>> \o InsertRanked(probabilities, i, Tail(sorted))

RECURSIVE Ranked(_, _)
Ranked(probabilities, k) ==
    IF k = 0 THEN <<>>
    ELSE Let(Ranked(probabilities, k - 1), LAMBDA r : InsertRanked(probabilities, k, r))

RECURSIVE Suppress(_, _, _)
Suppress(boxes, idxs, pick) ==
    IF idxs = <<>> THEN pick
    ELSE Let(SelectSeq(Tail(idxs),
                 LAMBDA j : ~RGt(OverlapRatio(boxes[Head(idxs)], boxes[j]),
                                 OVERLAP_THRESHOLD)),
             LAMBDA keep : Suppress(boxes, keep, Append(pick, Head(idxs))))

non_max_suppression_fast(boxes, probabilities) ==
    Let2(boxes, probabilities, LAMBDA b, p :
        Let(Ranked(p, Len(b)), LAMBDA idxs : Suppress(b, idxs, <<>>)))

(***************************************************************************)
(* BlazePalm.detect_hand                                                   *)
(***************************************************************************)
\* a tensor is described by its shape and its least and greatest value
Tensor(shape, lo, hi) == [shape |-> shape, lo |-> lo, hi |-> hi]

RECURSIVE Product(_)
Product(shape) == IF shape = <<>> THEN 1 ELSE Head(shape) * Product(Tail(shape))

\* x[mask]: the rows of x whose mask entry is set, in order
RECURSIVE Masked(_, _)
Masked(x, mask) ==
    IF x = <<>> THEN <<>>
    ELSE (IF Head(mask) THEN <<Head(x)>> ELSE <<>>) \o Masked(Tail(x), Tail(mask))

\* the comparison of line 131 made non-strict
detection_mask_ge(probabilities) ==
    Let(probabilities, LAMBDA p :
        Array([i \in 1..Len(p) |-> RLe(CONFINDENCE_THRESHOLD, p[i])]))

\* line 131: probabilities > CONFINDENCE_THRESHOLD
detection_mask(probabilities) ==
    Let(probabilities, LAMBDA p :
        Array([i \in 1..Len(p) |-> RGt(p[i], CONFINDENCE_THRESHOLD)]))

\* lines 130-134: the rows of the outputs and of the anchor table that pass the mask
filter_candidates(s, out) ==
    Let(Array([i \in 1..Len(out.out_clf) |-> sigm(out.out_clf[i])]), LAMBDA probabilities :
        Let(detection_mask(probabilities), LAMBDA mask :
            [ candidate_detect  |-> Masked(out.out_reg, mask),
              candidate_anchors |-> Masked(s.anchors, mask),
              probabilities     |-> Masked(probabilities, mask) ]))

\* the shift written into the candidates themselves instead of a copy
move_candidates_aliased(candidate_detect, candidate_anchors) ==
    Let(Array([i \in 1..Len(candidate_detect) |->
            Array([k \in 1..18 |->
                IF k <= 2
                THEN RAdd(candidate_detect[i][k], RMul(candidate_anchors[i][k], I(256)))
                ELSE candidate_detect[i][k]])]),
        LAMBDA moved : [candidate_detect |-> moved, moved |-> moved])

\* lines 142-144: the candidates are copied and the copy is moved by the anchors;
\* the pair is the candidate array after the statement and the moved array
move_candidates(candidate_detect, candidate_anchors) ==
    [ candidate_detect |-> candidate_detect,
      moved |-> Array([i \in 1..Len(candidate_detect) |->
                    Array([k \in 1..18 |->
                        IF k <= 2
                        THEN RAdd(candidate_detect[i][k],
                                  RMul(candidate_anchors[i][k], I(256)))
                        ELSE candidate_detect[i][k]])]) ]

\* moved_candidate_detect[:, :4]
boxes_of(moved) == Let(moved, LAMBDA m : Array([i \in 1..Len(m) |-> SubSeq(m[i], 1, 4)]))

\* the last survivor taken instead of the first
last_box(box_ids) == box_ids[Len(box_ids)]

\* line 149: box_ids = box_ids[0]
first_box(box_ids) == box_ids[1]

\* candidate_detect[box_ids, 4:].reshape(-1, 2)
keypoint_offsets(row) == Array([k \in 1..7 |-> <<row[3 + 2 * k], row[4 + 2 * k]>>])

\* lines 151-166 for the selected row of the candidates and of their anchors
decode_candidate(s, row, anchor) ==
    Let2(VScale(anchor, I(256)), keypoint_offsets(row), LAMBDA center_wo_offst, offs :
        Let2(Array([k \in 1..7 |-> VAdd(center_wo_offst, offs[k])]),
             RMul(RMax(row[3], row[4]), s.box_enlarge),
             LAMBDA keypoints, side :
                 Let2(get_triangle(s, keypoints[1], keypoints[3], side),
                      VScale(VSub(keypoints[1], keypoints[3]), s.box_shift),
                      LAMBDA tri, shift :
                          [ source    |-> Array([k \in 1..3 |-> VSub(tri[k], shift)]),
                            keypoints |-> keypoints ])))

\* the precondition checks without the shape assertion
precondition_no_shape(img_norm) ==
    IF Product(img_norm.shape) = 0 THEN "ValueError"
    ELSE IF ~(RLe(I(-1), img_norm.lo) /\ RLe(img_norm.hi, I(1))) THEN "AssertionError"
    ELSE "ok"

\* the precondition checks of lines 108-111, in the order they are evaluated
precondition(img_norm) ==
    IF Product(img_norm.shape) = 0 THEN "ValueError"
    ELSE IF ~(RLe(I(-1), img_norm.lo) /\ RLe(img_norm.hi, I(1))) THEN "AssertionError"
    ELSE IF img_norm.shape # TENSOR_SHAPE THEN "AssertionError"
    ELSE "ok"

\* what detect_hand hands back when it raises or finds no hand
no_hand(outcome, s, eng, trace) ==
    [ outcome |-> outcome, source |-> <<>>, keypoints |-> <<>>, debug_info |-> <<>>,
      interp_palm |-> eng, self |-> s, trace |-> trace ]

\* a debug record that always names the first candidate
debug_info_first(candidate_detect, candidate_anchors, box_ids) ==
    [ detection_candidates |-> candidate_detect,
      anchor_candidates    |-> candidate_anchors,
      selected_box_id      |-> 1 ]

\* lines 168-172
debug_info(candidate_detect, candidate_anchors, box_ids) ==
    [ detection_candidates |-> candidate_detect,
      anchor_candidates    |-> candidate_anchors,
      selected_box_id      |-> box_ids ]

\* lines 140-174: suppression, the choice of one box, its frame and the debug info
best_hand(s, eng, c) ==
    Let(move_candidates(c.candidate_detect, c.candidate_anchors), LAMBDA mc :
        Let(first_box(non_max_suppression_fast(boxes_of(mc.moved), c.probabilities)),
            LAMBDA box_ids :
                Let(decode_candidate(s, mc.candidate_detect[box_ids],
                                     c.candidate_anchors[box_ids]),
                    LAMBDA dec :
                        [ outcome |-> "return", source |-> dec.source,
                          keypoints |-> dec.keypoints,
                          debug_info |-> << debug_info(mc.candidate_detect,
                                                       c.candidate_anchors, box_ids) >>,
                          interp_palm |-> eng, self |-> s,
                          trace |-> <<"set_tensor", "invoke", "non_max_suppression_fast",
                                      "get_triangle">> ])))

\* lines 114-115: the engine is given the tensor and invoked
invoke(eng, img_norm) == [tensor |-> <<img_norm>>, invoked |-> TRUE]

\* the call detect_hand(img_norm) on decoder s with engine handle eng, when the
\* engine answers out = [out_reg, out_clf] for the tensor
detect_hand(s, eng, img_norm, out) ==
    Let(precondition(img_norm), LAMBDA pre :
        IF pre # "ok" THEN no_hand(pre, s, eng, <<>>)
        ELSE Let(filter_candidates(s, out), LAMBDA c :
                 IF Len(c.candidate_detect) = 0
                 THEN no_hand("return", s, invoke(eng, img_norm), <<"set_tensor", "invoke">>)
                 ELSE best_hand(s, invoke(eng, img_norm), c)))

(***************************************************************************)
(* BlazePalm.preprocess_img                                                *)
(***************************************************************************)
\* line 179: pad = (shape.max() - shape[:2]).astype('uint32') // 2
pad_of(shape) ==
    Let(SeqMax(shape), LAMBDA m : << (m - shape[1]) \div 2, (m - shape[2]) \div 2 >>)

\* lines 180-183: np.pad with zeros, pad[k] rows or columns on each side of axis k
np_pad(img, pad) ==
    Tensor(<<img.shape[1] + 2 * pad[1], img.shape[2] + 2 * pad[2], img.shape[3]>>,
           IF pad[1] > 0 \/ pad[2] > 0 THEN RMin(img.lo, I(0)) ELSE img.lo,
           IF pad[1] > 0 \/ pad[2] > 0 THEN RMax(img.hi, I(0)) ELSE img.hi)

preprocess_img(img) ==
    Let(pad_of(img.shape), LAMBDA pad :
        Let(np_pad(img, pad), LAMBDA img_pad :
            [ img_pad  |-> img_pad,
              img_norm |-> Tensor(<<256, 256, img_pad.shape[3]>>,
                                  im_normalize(img_pad.lo), im_normalize(img_pad.hi)),
              pad      |-> pad ]))

(***************************************************************************)
(* BlazePalm.pred_bbox                                                     *)
(***************************************************************************)
Det2(a, b, c, d) == RSub(RMul(a, d), RMul(b, c))

Det3(mat) ==
    Let(mat, LAMBDA m :
        RAdd(RSub(RMul(m[1][1], Det2(m[2][2], m[2][3], m[3][2], m[3][3])),
                  RMul(m[1][2], Det2(m[2][1], m[2][3], m[3][1], m[3][3]))),
             RMul(m[1][3], Det2(m[2][1], m[2][2], m[3][1], m[3][2]))))

\* the matrix A with column c replaced by component r of the points dst
WithCol(A, dst, c, r) ==
    Array([i \in 1..3 |-> Array([j \in 1..3 |-> IF j = c THEN dst[i][r] ELSE A[i][j]])])

\* cv2.getAffineTransform(src, dst): the 2x3 matrix M with M @ [x, y, 1] = dst[i]
\* for the three points (x, y) = src[i], solved by Cramer's rule
getAffineTransform(src, dst) ==
    Let2(Array([i \in 1..3 |-> <<src[i][1], src[i][2], I(1)>>]), dst, LAMBDA A, b :
        Let(Det3(A), LAMBDA det :
            Array([r \in 1..2 |->
                Array([c \in 1..3 |-> RDiv(Det3(WithCol(A, b, c, r)), det)])])))

\* the padded matrix with its last row left at [1, 1, 1]
square_matrix_ones(Mtr) == Transpose(pad1(Transpose(Mtr)))

\* lines 202-203: the row [0, 0, 1] makes the matrix square
square_matrix(Mtr) ==
    Let(Transpose(pad1(Transpose(Mtr))), LAMBDA padded :
        Array([i \in 1..3 |->
            Array([j \in 1..3 |-> IF i = 3 /\ j <= 2 THEN I(0) ELSE padded[i][j]])]))

\* the rows (or columns) of a 3x3 matrix other than row (or column) i
Others(i) == IF i = 1 THEN <<2, 3>> ELSE IF i = 2 THEN <<1, 3>> ELSE <<1, 2>>

Minor(m, i, j) ==
    Det2(m[Others(i)[1]][Others(j)[1]], m[Others(i)[1]][Others(j)[2]],
         m[Others(i)[2]][Others(j)[1]], m[Others(i)[2]][Others(j)[2]])

\* np.linalg.inv of a 3x3 matrix: adjugate over determinant
inv(mat) ==
    Let(mat, LAMBDA m :
        Let(Det3(m), LAMBDA det :
            Array([i \in 1..3 |->
                Array([j \in 1..3 |->
                    RDiv(IF (i + j) % 2 = 0 THEN Minor(m, j, i) ELSE RNeg(Minor(m, j, i)),
                         det)])])))

\* (x @ m.T)[:, :2] for rows x of three values
project(rows, mat) ==
    Let2(rows, mat, LAMBDA x, m :
        Array([i \in 1..Len(x) |->
            Array([j \in 1..2 |->
                RAdd(RAdd(RMul(x[i][1], m[j][1]), RMul(x[i][2], m[j][2])),
                     RMul(x[i][3], m[j][3]))])]))

\* source * scale
scaled(source, scale) == Array([k \in 1..3 |-> VScale(source[k], scale)])

\* the geometry of lines 196-206 can be solved: the scaled triangle is finite and
\* not collinear
solvable(source, scale) ==
    /\ \A k \in 1..3 : VFinite(source[k])
    /\ Let(scaled(source, scale), LAMBDA t :
           Det3(Array([i \in 1..3 |-> <<t[i][1], t[i][2], I(1)>>])) # I(0))

\* lines 196-206: the target box projected back through the inverse transform
box_from_source(s, source, scale) ==
    project(s.target_box,
            inv(square_matrix(getAffineTransform(scaled(source, scale), s.target_triangle))))

NaNBox == Array([i \in 1..4 |-> <<NaN, NaN>>])

\* line 207: box_orig -= pad[::-1]
subtract_pad(box_orig, pad) ==
    Let(box_orig, LAMBDA b :
        Array([i \in 1..Len(b) |-> VSub(b[i], <<I(pad[2]), I(pad[1])>>)]))

\* lines 194-208 for a frame that detect_hand returned; where the libraries are
\* handed an unsolvable triangle the result is a box of nan or numpy's LinAlgError
boxes_from(s, source, scale, pad) ==
    IF solvable(source, scale)
    THEN { [outcome |-> "return",
            value |-> subtract_pad(box_from_source(s, source, scale), pad)] }
    ELSE { [outcome |-> "return", value |-> subtract_pad(NaNBox, pad)],
           [outcome |-> "LinAlgError", value |-> <<>>] }

\* the possible results of the call pred_bbox(img)
pred_bbox(s, eng, img, out) ==
    Let(preprocess_img(img), LAMBDA pre :
        Let(detect_hand(s, eng, pre.img_norm, out), LAMBDA det :
            IF det.outcome # "return" \/ det.source = <<>>
            THEN { [ outcome |-> det.outcome, value |-> <<>>, pad |-> pre.pad,
                     img_pad |-> pre.img_pad, det |-> det, trace |-> det.trace ] }
            ELSE { [ outcome |-> b.outcome, value |-> b.value, pad |-> pre.pad,
                     img_pad |-> pre.img_pad, det |-> det,
                     trace |-> det.trace \o <<"getAffineTransform", "inv">> ] :
                     b \in boxes_from(s, det.source, Q(SeqMax(img.shape), 256), pre.pad) }))

(***************************************************************************)
(* State: the decoder object, the engine handle, the argument of the       *)
(* call, what the engine answers for it, and the last call's result.       *)
(***************************************************************************)
VARIABLES self, interp_palm, img, out, ret

vars == <<self, interp_palm, img, out, ret>>

\* a regression row: dx, dy, w, h and seven keypoint offsets, of which the wrist
\* (index 0) and the middle-finger base (index 2) are given
Row(dx, dy, w, h, kp0, kp2) ==
    Array([k \in 1..18 |->
        I(CASE k = 1 -> dx [] k = 2 -> dy [] k = 3 -> w [] k = 4 -> h
            [] k = 5 -> kp0[1] [] k = 6 -> kp0[2]
            [] k = 9 -> kp2[1] [] k = 10 -> kp2[2]
            [] OTHER -> 1)])

\* a palm seen at an angle, and a palm whose wrist and middle-finger base coincide
\* (its box lies well to the left of the first one's)
Palm == Row(1, 0, 6, 10, <<4, 0>>, <<0, 3>>)

FlatPalm == Row(-20, 0, 10, 6, <<1, 1>>, <<1, 1>>)

Rows == {Palm, FlatPalm}

Logits == {I(-1), I(0), I(1), I(2)}

\* what the engine may answer: one row and one logit per anchor
Scenes ==
    { [out_reg |-> Array(r), out_clf |-> Array(c)] :
        r \in [1..NumAnchors -> Rows], c \in [1..NumAnchors -> Logits] }

\* the engine sees the same thing at every anchor
UniformScenes == {sc \in Scenes : \A i \in 1..NumAnchors :
                     sc.out_reg[i] = sc.out_reg[1] /\ sc.out_clf[i] = sc.out_clf[1]}

\* no hand in view
QuietScene ==
    [out_reg |-> Array([i \in 1..NumAnchors |-> Palm]),
     out_clf |-> Array([i \in 1..NumAnchors |-> I(-1)])]

WellFormed == Tensor(TENSOR_SHAPE, I(-1), I(1))

\* tensors handed to detect_hand directly: a well-formed one and malformed ones
Tensors ==
    { WellFormed,
      Tensor(TENSOR_SHAPE, I(-1), I(2)),
      Tensor(TENSOR_SHAPE, NaN, NaN),
      Tensor(<<256, 256>>, I(0), I(1)),
      Tensor(<<0, 256, 3>>, I(0), I(0)) }

\* camera frames handed to pred_bbox: height x width x 3 of 8-bit values
Frame(h, w) == Tensor(<<h, w, 3>>, I(0), I(255))

Frames == {Frame(256, 512), Frame(253, 256)}

AllFrames == {Frame(h, w) : h \in 1..MaxSide, w \in 1..MaxSide}

IsImage(x) == Len(x.shape) = 3 /\ Product(x.shape) > 0

NoCall ==
    [ op |-> "none", outcome |-> "none", source |-> <<>>, keypoints |-> <<>>,
      debug_info |-> <<>>, box |-> <<>>, pad |-> <<>>, img_pad |-> <<>>,
      img_norm |-> <<>>, trace |-> <<>> ]

Init ==
    /\ self = BlazePalmInit
    /\ interp_palm = EngineInit
    /\ img \in Tensors \cup Frames
    /\ out \in Scenes
    /\ ret = NoCall

\* a caller runs detect_hand(img)
DetectHand ==
    /\ \E r \in {detect_hand(self, interp_palm, img, out)} :
          /\ self' = r.self
          /\ interp_palm' = r.interp_palm
          /\ ret' = [NoCall EXCEPT !.op = "detect_hand", !.outcome = r.outcome,
                         !.source = r.source, !.keypoints = r.keypoints,
                         !.debug_info = r.debug_info, !.trace = r.trace]
    /\ UNCHANGED <<img, out>>

\* a caller runs preprocess_img(img)
PreprocessImg ==
    /\ IsImage(img)
    /\ \E r \in {preprocess_img(img)} :
          ret' = [NoCall EXCEPT !.op = "preprocess_img", !.outcome = "return",
                      !.pad = r.pad, !.img_pad = <<r.img_pad>>,
                      !.img_norm = <<r.img_norm>>]
    /\ UNCHANGED <<self, interp_palm, img, out>>

\* the result of pred_bbox as the state after the call
Returned(op, r) ==
    [NoCall EXCEPT !.op = op, !.outcome = r.outcome, !.box = r.value,
        !.source = r.det.source, !.keypoints = r.det.keypoints,
        !.debug_info = r.det.debug_info, !.pad = r.pad,
        !.img_pad = <<r.img_pad>>, !.trace = r.trace]

\* a caller runs pred_bbox(img)
PredBbox ==
    /\ IsImage(img)
    /\ \E r \in pred_bbox(self, interp_palm, img, out) :
          /\ self' = r.det.self
          /\ interp_palm' = r.det.interp_palm
          /\ ret' = Returned("pred_bbox", r)
    /\ UNCHANGED <<img, out>>

\* a caller runs the detector object itself: __call__ returns pred_bbox(img)
Call ==
    /\ IsImage(img)
    /\ \E r \in pred_bbox(self, interp_palm, img, out) :
          /\ self' = r.det.self
          /\ interp_palm' = r.det.interp_palm
          /\ ret' = Returned("__call__", r)
    /\ UNCHANGED <<img, out>>

Next == DetectHand \/ PreprocessImg \/ PredBbox \/ Call

Spec == Init /\ [][Next]_vars

(***************************************************************************)
(* The main loop (lines 223-248): a new frame is captured between calls.   *)
(***************************************************************************)
InitSeq ==
    /\ self = BlazePalmInit
    /\ interp_palm = EngineInit
    /\ img = WellFormed
    /\ out = QuietScene
    /\ ret = NoCall

\* after a call the caller gets another image, for which the engine will answer
\* differently
Capture ==
    /\ ret.op # "none"
    /\ img' \in Tensors \cup Frames
    /\ out' \in UniformScenes
    /\ ret' = NoCall
    /\ UNCHANGED <<self, interp_palm>>

NextSeq == Capture \/ DetectHand \/ PreprocessImg \/ PredBbox \/ Call

SpecSeq == InitSeq /\ [][NextSeq]_vars

(***************************************************************************)
(* Frames of every small size, with no hand in view.                       *)
(***************************************************************************)
InitPre ==
    /\ self = BlazePalmInit
    /\ interp_palm = EngineInit
    /\ img \in AllFrames
    /\ out = QuietScene
    /\ ret = NoCall

NextPre == PreprocessImg \/ PredBbox

SpecPre == InitPre /\ [][NextPre]_vars

(***************************************************************************)
(* Lines 194-208 of pred_bbox on an arbitrary frame handed back by         *)
(* detect_hand.                                                            *)
(***************************************************************************)
Triangles ==
    { << Vec(p[1], p[2]), Vec(p[3], p[4]), Vec(p[5], p[6]) >> :
        p \in [1..6 -> 0..MaxCoord] }

InitAffine ==
    /\ self = BlazePalmInit
    /\ interp_palm = EngineInit
    /\ img \in {Frame(256, 256), Frame(256, 512)}
    /\ out = QuietScene
    /\ \E t \in Triangles :
          ret = [NoCall EXCEPT !.op = "detect_hand", !.outcome = "return", !.source = t]

\* pred_bbox from line 194 on, with the frame in ret.source
BoxFromSource ==
    /\ ret.op = "detect_hand" /\ ret.outcome = "return" /\ ret.source # <<>>
    /\ \E pad \in {pad_of(img.shape)} :
       \E b \in boxes_from(self, ret.source, Q(SeqMax(img.shape), 256), pad) :
          ret' = [ret EXCEPT !.op = "pred_bbox", !.outcome = b.outcome,
                      !.box = b.value, !.pad = pad]
    /\ UNCHANGED <<self, interp_palm, img, out>>

NextAffine == BoxFromSource

SpecAffine == InitAffine /\ [][NextAffine]_vars

(***************************************************************************)
(* Properties.                                                             *)
(***************************************************************************)
\* the last call ran the named step
Ran(step) == \E k \in 1..Len(ret.trace) : ret.trace[k] = step

DecoderCall == ret.op \in {"detect_hand", "pred_bbox", "__call__"}

Raised == ret.outcome \in {"AssertionError", "ValueError"}

AboveThreshold(i) == RGt(sigm(out.out_clf[i]), CONFINDENCE_THRESHOLD)

NoAnchorAbove == \A i \in 1..NumAnchors : ~AboveThreshold(i)

\* C1: when no anchor's probability sigmoid(logit) exceeds 0.5, a decoder call that
\* got past its preconditions returns no detection (detect_hand: None, None, None;
\* pred_bbox and __call__: None) and has run neither the suppression nor any
\* geometry step
C1_NoDetection ==
    (DecoderCall /\ NoAnchorAbove /\ ~Raised) =>
        /\ ret.outcome = "return"
        /\ ret.source = <<>> /\ ret.keypoints = <<>> /\ ret.debug_info = <<>>
        /\ ret.box = <<>>
        /\ ~Ran("non_max_suppression_fast") /\ ~Ran("get_triangle")
        /\ ~Ran("getAffineTransform") /\ ~Ran("inv")

\* pred_bbox has returned for a scene whose best logit is exactly 0
C1_Witness ==
    /\ NoAnchorAbove /\ ret.op = "pred_bbox" /\ ret.outcome = "return" /\ Ran("invoke")
    /\ \E i \in 1..NumAnchors : out.out_clf[i] = I(0)

\* the indices of the anchors whose logit is strictly positive, in increasing order
RECURSIVE PositiveUpTo(_)
PositiveUpTo(k) ==
    IF k = 0 THEN <<>>
    ELSE PositiveUpTo(k - 1) \o (IF out.out_clf[k].n > 0 THEN <<k>> ELSE <<>>)

\* C9: an anchor survives filtering iff its logit is strictly positive (a logit of 0
\* is filtered out), so survival is monotonic in the logit, and the filtered
\* detections, anchors and probabilities are the survivors' rows in their order
C9_Filter ==
    LET c    == filter_candidates(self, out)
        surv == PositiveUpTo(NumAnchors)
        mask == detection_mask(Array([i \in 1..NumAnchors |-> sigm(out.out_clf[i])]))
    IN  /\ c.candidate_detect = Array([k \in 1..Len(surv) |-> out.out_reg[surv[k]]])
        /\ c.candidate_anchors = Array([k \in 1..Len(surv) |-> self.anchors[surv[k]]])
        /\ c.probabilities = Array([k \in 1..Len(surv) |-> sigm(out.out_clf[surv[k]])])
        /\ \A i, j \in 1..NumAnchors :
              (mask[i] /\ RLe(out.out_clf[i], out.out_clf[j])) => mask[j]
        /\ (ret.op = "detect_hand" /\ ret.outcome = "return") =>
              IF surv = <<>> THEN ret.debug_info = <<>>
              ELSE /\ ret.debug_info # <<>>
                   /\ ret.debug_info[1].detection_candidates = c.candidate_detect
                   /\ ret.debug_info[1].anchor_candidates = c.candidate_anchors

\* detect_hand has filtered out an anchor of logit 0 and kept another
C9_Witness ==
    /\ ret.op = "detect_hand" /\ ret.debug_info # <<>>
    /\ Len(ret.debug_info[1].detection_candidates) < NumAnchors
    /\ \E i \in 1..NumAnchors : out.out_clf[i] = I(0)

Malformed(t) == t.shape # TENSOR_SHAPE \/ ~(RLe(I(-1), t.lo) /\ RLe(t.hi, I(1)))

\* C5: detect_hand on a tensor whose shape is not (256, 256, 3) or whose values
\* are not all in [-1, 1] fails in its precondition checks; the engine is not given
\* the tensor and not invoked, and no later step runs
C5_FailFast ==
    /\ (ret.op = "detect_hand" /\ Malformed(img)) =>
          /\ Raised
          /\ ret.trace = <<>>
          /\ ret.source = <<>> /\ ret.keypoints = <<>> /\ ret.debug_info = <<>>
    /\ Malformed(img) => interp_palm.tensor # <<img>>

\* detect_hand has refused a tensor of the wrong shape for which the engine would
\* have reported a hand
C5_Witness ==
    /\ ret.op = "detect_hand" /\ ret.outcome = "AssertionError"
    /\ img.shape = <<256, 256>>
    /\ \E i \in 1..NumAnchors : AboveThreshold(i)


\* the candidates that pass the threshold, their anchor-shifted boxes, and what the
\* suppression leaves of them
Candidates == filter_candidates(self, out)

MovedBoxes ==
    boxes_of(move_candidates(Candidates.candidate_detect,
                             Candidates.candidate_anchors).moved)

Survivors == non_max_suppression_fast(MovedBoxes, Candidates.probabilities)

Detected == ret.op = "detect_hand" /\ ret.outcome = "return" /\ ret.debug_info # <<>>

Selected == ret.debug_info[1].selected_box_id

Perms(n) == {pi \in [1..n -> 1..n] : \A i, j \in 1..n : pi[i] = pi[j] => i = j}

Permuted(seq, pi) == Array([k \in 1..Len(seq) |-> seq[pi[k]]])

C3_OneBox ==
    /\ (ret.op \in {"pred_bbox", "__call__"} /\ ret.outcome = "return") =>
          \/ ret.box = <<>>
          \/ Len(ret.box) = 4 /\ \A k \in 1..4 : Len(ret.box[k]) = 2
    /\ (DecoderCall /\ ret.debug_info # <<>>) =>
          Let(ret.debug_info[1], LAMBDA d :
              /\ d.detection_candidates = Candidates.candidate_detect
              /\ d.anchor_candidates = Candidates.candidate_anchors
              /\ Len(d.anchor_candidates) = Len(d.detection_candidates)
              /\ d.selected_box_id \in 1..Len(d.detection_candidates)
              /\ Let(decode_candidate(self, d.detection_candidates[d.selected_box_id],
                                      d.anchor_candidates[d.selected_box_id]),
                     LAMBDA dec : ret.source = dec.source /\ ret.keypoints = dec.keypoints))

\* pred_bbox has returned one box although two candidates survived the suppression,
\* and the selected one is not the first of the list
C3_Witness ==
    /\ ret.op = "pred_bbox" /\ ret.outcome = "return" /\ Len(ret.box) = 4
    /\ ret.debug_info # <<>> /\ Selected = 2
    /\ Len(Survivors) = 2

ExactlyOneAbove ==
    \E i \in 1..NumAnchors :
        AboveThreshold(i) /\ \A j \in 1..NumAnchors : AboveThreshold(j) => j = i

TheAnchor == CHOOSE i \in 1..NumAnchors : AboveThreshold(i)

wrist == VAdd(VScale(self.anchors[TheAnchor], I(256)),
              <<out.out_reg[TheAnchor][5], out.out_reg[TheAnchor][6]>>)

mid == VAdd(VScale(self.anchors[TheAnchor], I(256)),
            <<out.out_reg[TheAnchor][9], out.out_reg[TheAnchor][10]>>)

side == RMul(RMax(out.out_reg[TheAnchor][3], out.out_reg[TheAnchor][4]), Q(3, 2))

OneClearHand == Detected /\ ExactlyOneAbove /\ wrist # mid

\* the frame whose first point is corner, for the axis from wrist to mid
FrameAt(corner) ==
    Let2(VDivide(VSub(mid, wrist), norm(VSub(mid, wrist))),
         VAdd(corner, VScale(VSub(mid, wrist), Q(1, 5))),
         LAMBDA u, first :
             << first,
                VAdd(first, VScale(u, side)),
                VAdd(first, VScale(<<u[2], RNeg(u[1])>>, side)) >>)

\* C7 as stated: the frame's first point is the wrist shifted by 0.2*(mid - wrist)
C7_WristAnchored == OneClearHand => ret.source = FrameAt(wrist)

\* C7: with exactly one anchor above threshold and distinct wrist and middle-finger
\* base keypoints, the frame's first point is the middle-finger base shifted by
\* 0.2*(mid - wrist), its second point is the first plus side*u, and its third
\* point is the first plus side*(u_y, -u_x), for u = (mid - wrist)/|mid - wrist|
\* and side = max(w, h) * 1.5
C7_MidAnchored == OneClearHand => ret.source = FrameAt(mid)

\* detect_hand has returned the frame of a single tilted palm
C7_Witness ==
    /\ OneClearHand /\ out.out_reg[TheAnchor] = Palm
    /\ VFinite(ret.source[1]) /\ VFinite(ret.source[2]) /\ VFinite(ret.source[3])
    /\ ret.source[1] # mid

HasNaN(points) ==
    \E k \in 1..Len(points) : ~VFinite(points[k])

\* C4 as stated: when the selected candidate's wrist and middle-finger base
\* keypoints coincide, the call ends in a geometric-degeneracy error, and neither
\* a frame nor a box with non-finite values is returned, nor a numeric exception
\* raised
C4_Degeneracy ==
    (DecoderCall /\ ret.keypoints # <<>> /\ ret.keypoints[1] = ret.keypoints[3]) =>
        /\ ret.outcome = "GeometricDegeneracy"
        /\ ~HasNaN(ret.source) /\ ~HasNaN(ret.box)


LongerSide == IF img.shape[1] >= img.shape[2] THEN img.shape[1] ELSE img.shape[2]

\* C6 as stated: for a frame of any height and width preprocess_img pads to a square
\* whose side is the frame's longer side, and the returned pad holds the rows and
\* the columns added before the image
C6_SquarePad ==
    (ret.op = "preprocess_img" /\ ret.outcome = "return") =>
        /\ ret.img_pad[1].shape[1] = LongerSide
        /\ ret.img_pad[1].shape[2] = LongerSide
        /\ 2 * ret.pad[1] = ret.img_pad[1].shape[1] - img.shape[1]
        /\ 2 * ret.pad[2] = ret.img_pad[1].shape[2] - img.shape[2]

\* the frame pred_bbox works on, in the coordinates of the padded image
S == scaled(ret.source, Q(SeqMax(img.shape), 256))

NonCollinear(t) ==
    Det2(RSub(t[2][1], t[1][1]), RSub(t[2][2], t[1][2]),
         RSub(t[3][1], t[1][1]), RSub(t[3][2], t[1][2])) # I(0)

BoxReturned == ret.op = "pred_bbox" /\ ret.source # <<>>

\* the returned box before the pad was subtracted
BoxPadded == Array([k \in 1..4 |-> VAdd(ret.box[k], <<I(ret.pad[2]), I(ret.pad[1])>>)])

\* C8: for a non-collinear frame (S0, S1, S2) the transform recovered in pred_bbox
\* sends the scaled frame to the target triangle and its inverse sends the target
\* triangle back to the scaled frame; the four points returned are, before the pad
\* is subtracted, S1+S2-S0, S0+S1-S2, 3*S0-S1-S2 and S0+S2-S1, whose mean is S0
C8_RoundTrip ==
    (BoxReturned /\ NonCollinear(ret.source)) =>
        Let2(S, square_matrix(getAffineTransform(S, self.target_triangle)), LAMBDA t, Mtr :
            /\ ret.outcome = "return"
            /\ project(pad1(t), Mtr) = self.target_triangle
            /\ project(pad1(self.target_triangle), inv(Mtr)) = t
            /\ Let(BoxPadded, LAMBDA b :
                   /\ b = triangle_to_bbox(t)
                   /\ b[1] = VSub(VAdd(t[2], t[3]), t[1])
                   /\ b[2] = VSub(VAdd(t[1], t[2]), t[3])
                   /\ b[3] = VSub(VSub(VScale(t[1], I(3)), t[2]), t[3])
                   /\ b[4] = VSub(VAdd(t[1], t[3]), t[2])
                   /\ VAdd(VAdd(b[1], b[2]), VAdd(b[3], b[4])) = VScale(t[1], I(4))))

\* a box has been returned for a skewed frame in a wide image, where the pad is
\* not zero and the scale is not one
C8_Witness ==
    /\ BoxReturned /\ ret.outcome = "return"
    /\ ret.source = <<Vec(1, 1), Vec(2, 0), Vec(2, 2)>>
    /\ ret.pad = <<128, 0>>
    /\ ret.box[3] = Vec(-2, -126)


\* the rows of out_reg whose logit is positive, as the engine gave them
RawCandidates ==
    Let(PositiveUpTo(NumAnchors), LAMBDA surv :
        Array([k \in 1..Len(surv) |-> out.out_reg[surv[k]]]))

\* the last call's result is the result a freshly constructed decoder gives for the
\* same image and engine outputs, and its debug info holds the raw regression rows
FreshResult ==
    /\ self = BlazePalmInit
    /\ ret.op = "detect_hand" =>
          Let(detect_hand(BlazePalmInit, EngineInit, img, out), LAMBDA r :
              /\ ret.outcome = r.outcome /\ ret.source = r.source
              /\ ret.keypoints = r.keypoints /\ ret.debug_info = r.debug_info)
    /\ ret.op \in {"pred_bbox", "__call__"} =>
          \E r \in pred_bbox(BlazePalmInit, EngineInit, img, out) :
              /\ ret.outcome = r.outcome /\ ret.box = r.value
              /\ ret.source = r.det.source /\ ret.debug_info = r.det.debug_info
    /\ ret.debug_info # <<>> =>
          ret.debug_info[1].detection_candidates = RawCandidates

\* C10: no call changes the anchor table, box_enlarge, box_shift, R90, the target
\* triangle or the target box, so after any sequence of calls a call's result is
\* the one determined by its image and the engine's outputs for it; and the
\* detection_candidates of the debug info are the raw, un-shifted regression rows
C10_Stateless == []FreshResult /\ [][self' = self]_vars

\* a detection that follows an earlier call without one, with candidates whose
\* shifted centre differs from the raw offsets
C10_Witness ==
    /\ Detected /\ interp_palm.invoked
    /\ ret.debug_info[1].detection_candidates[1] = Palm
    /\ MovedBoxes[1] # SubSeq(Palm, 1, 4)


\* detect_hand has returned a frame for a candidate whose wrist and middle-finger
\* base coincide
C4_Witness ==
    /\ ret.op = "detect_hand" /\ ret.outcome = "return"
    /\ ret.keypoints # <<>> /\ ret.keypoints[1] = ret.keypoints[3]
    /\ HasNaN(ret.source)

\* preprocess_img has returned for a frame smaller than the channel count
C6_Witness ==
    /\ ret.op = "preprocess_img" /\ img.shape = <<1, 1, 3>>
    /\ ret.img_pad[1].shape = <<3, 3, 3>> /\ ret.pad = <<1, 1>>

====
